---------------------------- MODULE Spec2Model ----------------------------
(***************************************************************************)
(* A model of kerbal_savefile_viewer.py: the translation of node-format    *)
(* text to JSON text by str.replace passes (sfs_parse), the JSON decoder   *)
(* with its duplicate-key hook (_duplicate_object_hook), the re-typing     *)
(* pass (retype_data), path lookup (_tree_path_split,                      *)
(* _dict_reference_from_list, inspect_data) and the main script.           *)
(*                                                                         *)
(* Text is a sequence of one-character strings.  A Python value is a       *)
(* tagged record:                                                          *)
(*   [t |-> "str",   s |-> text]            str                            *)
(*   [t |-> "map",   m |-> <<[k, v], ...>>] dict, in insertion order       *)
(*   [t |-> "seq",   e |-> <<value, ...>>]  list                           *)
(*   [t |-> "bool",  b |-> BOOLEAN], [t |-> "none"], [t |-> "int", i],     *)
(*   [t |-> "float", ...], [t |-> "tuple", e |-> <<float, ...>>]           *)
(* and an exception leaving a call is [t |-> "raise", exc |-> name].       *)
(***************************************************************************)
EXTENDS Integers, Sequences, FiniteSets, TLC

VARIABLES
    pc,          \* position of the running script or function
    sfs_file,    \* argument of sfs_parse: [kind |-> "file"|"str"|"other", text]
    args,        \* parsed command line: [d, x, p, q, r]
    sfs,         \* local variable sfs of sfs_parse
    n,           \* loop variable n of the dedent loop of sfs_parse
    jfs,         \* what sfs_parse returned / the tree the script works on
    pairs,       \* the key/value pairs handed to _duplicate_object_hook
    level,       \* nesting level at which the hook is being applied
    data,        \* argument of retype_data
    references,  \* args.references of the script
    log,         \* what the printouts loop did, one entry per reference
    written,     \* whether the .json file has been written
    doc          \* history: the node-format document the file text was written from

vars == <<pc, sfs_file, args, sfs, n, jfs, pairs, level, data, references, log, written, doc>>

-----------------------------------------------------------------------------
(* Bounds of the model.                                                    *)

MaxDepthArg == 3     \* args.d ranges over 1..MaxDepthArg
MaxPad == 2          \* padding of a line: at most MaxPad spaces/tabs per side
MaxPairs == 4        \* pairs handed to the hook at one level
MaxLevel == 2        \* nesting levels built by the hook
MaxRefs == 2         \* paths requested with -q

(* Program constants.                                                      *)
DefaultDepth == 16

-----------------------------------------------------------------------------
(* Characters and text.                                                    *)

NL == "\n"
TAB == "\t"
SP == " "
QUOTE == "\""

Unbound == [t |-> "unbound"]      \* a local variable that was never assigned
Idle == [t |-> "idle"]            \* a variable the running component does not use

Raise(e) == [t |-> "raise", exc |-> e]
Str(s) == [t |-> "str", s |-> s]
Map(m) == [t |-> "map", m |-> m]
List(e) == [t |-> "seq", e |-> e]
PyFalse == [t |-> "bool", b |-> FALSE]
PyTrue == [t |-> "bool", b |-> TRUE]
PyNone == [t |-> "none"]

CharAt(s, i) == IF 1 <= i /\ i <= Len(s) THEN s[i] ELSE ""

StartsAt(s, old, i) ==
    /\ i + Len(old) - 1 <= Len(s)
    /\ \A j \in 1..Len(old) : s[i + j - 1] = old[j]

(* str.find(old, i): the first index >= i where old occurs, 0 if none.    *)
Find(s, old, i) ==
    LET at == {j \in i..(Len(s) - Len(old) + 1) : StartsAt(s, old, j)}
    IN  IF at = {} THEN 0 ELSE CHOOSE j \in at : \A k \in at : j <= k

(* str.replace(old, new): every non-overlapping occurrence of old, found   *)
(* left to right, becomes new.                                             *)
RECURSIVE ReplaceFrom(_, _, _, _)
ReplaceFrom(s, old, new, i) ==
    LET j == Find(s, old, i)
    IN  IF j = 0 THEN SubSeq(s, i, Len(s))
        ELSE SubSeq(s, i, j - 1) \o new \o ReplaceFrom(s, old, new, j + Len(old))

Replace(s, old, new) == ReplaceFrom(s, old, new, 1)

Repeat(c, k) == [j \in 1..k |-> c]

(* str.split(sep)                                                          *)
RECURSIVE SplitFrom(_, _, _)
SplitFrom(s, sep, i) ==
    LET j == Find(s, sep, i)
    IN  IF j = 0 THEN <<SubSeq(s, i, Len(s))>>
        ELSE <<SubSeq(s, i, j - 1)>> \o SplitFrom(s, sep, j + Len(sep))

Split(s, sep) == SplitFrom(s, sep, 1)

-----------------------------------------------------------------------------
(* _duplicate_object_hook(pairs)                                           *)

(* itertools.groupby(pairs, _key): the maximal runs of consecutive pairs   *)
(* with equal keys, each as <<key, <<values>>>>.                           *)
RECURSIVE GroupBy(_, _)
GroupBy(ps, groups) ==
    IF ps = <<>> THEN groups
    ELSE LET p == Head(ps)
             g == Len(groups)
         IN  IF g > 0 /\ groups[g].k = p.k
             THEN GroupBy(Tail(ps), [groups EXCEPT ![g].ll = Append(@, p.v)])
             ELSE GroupBy(Tail(ps), Append(groups, [k |-> p.k, ll |-> <<p.v>>]))

(* A hook that wraps every group in a list, a lone value included.         *)
GroupValueAlwaysList(ll) == List(ll)

(* (v, *extra) = ll; yield (k, ll if extra else v)                         *)
GroupValue(ll) == IF Len(ll) > 1 THEN List(ll) ELSE ll[1]

gpairs(ps) ==
    LET groups == GroupBy(ps, <<>>)
    IN  [j \in 1..Len(groups) |-> [k |-> groups[j].k, v |-> GroupValue(groups[j].ll)]]

(* A dict that keeps the first value of a key seen again.                  *)
RECURSIVE DictOfFirstWins(_, _)
DictOfFirstWins(ps, m) ==
    IF ps = <<>> THEN m
    ELSE LET p == Head(ps)
             at == {j \in 1..Len(m) : m[j].k = p.k}
         IN  IF at = {}
             THEN DictOfFirstWins(Tail(ps), Append(m, p))
             ELSE DictOfFirstWins(Tail(ps), m)

(* dict(iterable of pairs): a key seen again keeps its place and takes the *)
(* new value.                                                              *)
RECURSIVE DictOf(_, _)
DictOf(ps, m) ==
    IF ps = <<>> THEN m
    ELSE LET p == Head(ps)
             at == {j \in 1..Len(m) : m[j].k = p.k}
         IN  IF at = {}
             THEN DictOf(Tail(ps), Append(m, p))
             ELSE DictOf(Tail(ps), [j \in 1..Len(m) |-> IF j \in at THEN p ELSE m[j]])

duplicate_object_hook(ps) == Map(DictOf(gpairs(ps), <<>>))

-----------------------------------------------------------------------------
(* json.loads(s, object_pairs_hook=_duplicate_object_hook), for text over  *)
(* the alphabet of the model: no backslash, no '[', no digit or sign, and  *)
(* none of the letters n, t, f, N, I that start a JSON literal, so that a  *)
(* value is a string or an object and anything else is a decode error.     *)
(* A parse result is [ok, val, end]: end is the index after the value.     *)

JsonWs == {SP, TAB, NL, "\r"}
Control == {NL, TAB, "\r"}

RECURSIVE SkipWs(_, _)
SkipWs(s, i) == IF i <= Len(s) /\ s[i] \in JsonWs THEN SkipWs(s, i + 1) ELSE i

Bad == [ok |-> FALSE, val |-> Idle, end |-> 0]

(* scanstring(s, begin), begin the index after the opening quote, strict:  *)
(* the string ends at the first quote; a control character, or the end of  *)
(* the text, before that quote is an error.                                *)
ScanString(s, begin) ==
    LET stops == {j \in begin..Len(s) : s[j] = QUOTE \/ s[j] \in Control}
        stop == IF stops = {} THEN 0 ELSE CHOOSE j \in stops : \A k \in stops : j <= k
    IN  IF stop = 0 \/ s[stop] # QUOTE THEN Bad
        ELSE [ok |-> TRUE, val |-> SubSeq(s, begin, stop - 1), end |-> stop + 1]

RECURSIVE JSONObject(_, _)
RECURSIVE ObjectMembers(_, _, _)
RECURSIVE ScanOnce(_, _)

(* scan_once(s, i): the value starting at index i.                         *)
ScanOnce(s, i) ==
    LET c == CharAt(s, i)
    IN  IF c = QUOTE
        THEN LET r == ScanString(s, i + 1)
             IN  IF r.ok THEN [r EXCEPT !.val = Str(r.val)] ELSE Bad
        ELSE IF c = "{" THEN JSONObject(s, i + 1)
             ELSE Bad

(* The loop of JSONObject; i is the index after the opening quote of the   *)
(* next key.                                                               *)
ObjectMembers(s, i, ps) ==
    LET key == ScanString(s, i)
    IN  IF ~key.ok THEN Bad
        ELSE LET colon == SkipWs(s, key.end)
             IN  IF CharAt(s, colon) # ":" THEN Bad
                 ELSE LET value == ScanOnce(s, SkipWs(s, colon + 1))
                      IN  IF ~value.ok THEN Bad
                          ELSE LET ps2 == Append(ps, [k |-> key.val, v |-> value.val])
                                   e == SkipWs(s, value.end)
                                   c == CharAt(s, e)
                               IN  IF c = "}"
                                   THEN [ok |-> TRUE,
                                         val |-> duplicate_object_hook(ps2),
                                         end |-> e + 1]
                                   ELSE IF c # "," THEN Bad
                                        ELSE LET q == SkipWs(s, e + 1)
                                             IN  IF CharAt(s, q) # QUOTE THEN Bad
                                                 ELSE ObjectMembers(s, q + 1, ps2)

(* JSONObject(s, i), i the index after the opening brace.                  *)
JSONObject(s, i) ==
    LET q == SkipWs(s, i)
        c == CharAt(s, q)
    IN  IF c = "}"
        THEN [ok |-> TRUE, val |-> duplicate_object_hook(<<>>), end |-> q + 1]
        ELSE IF c # QUOTE THEN Bad
             ELSE ObjectMembers(s, q + 1, <<>>)

(* JSONDecoder.decode: one value, then nothing but whitespace.             *)
json_loads(s) ==
    LET r == ScanOnce(s, SkipWs(s, 1))
    IN  IF r.ok /\ SkipWs(s, r.end) = Len(s) + 1
        THEN r.val
        ELSE Raise("JSONDecodeError")

-----------------------------------------------------------------------------
(* sfs_parse, statement by statement.                                      *)

(* sfs.replace("\t", '').replace(" \n", '\n').replace('\n ', '\n')         *)
CleanInput(s) ==
    Replace(Replace(Replace(s, <<TAB>>, <<>>), <<SP, NL>>, <<NL>>), <<NL, SP>>, <<NL>>)

(* Turn node names into JSON object keys.                                  *)
NodeNames(s) ==
    LET a == Replace(s, <<"}", NL>>, <<"}">>)
        b == Replace(a, <<NL, "{">>, <<":", "{">>)
    IN  Replace(b, <<"{", NL, "}">>, <<"{", "}", NL>>)

(* Turn assignment (=) into key-value pairs.                               *)
Assignments(s) ==
    LET a == Replace(s, <<SP, "=", NL>>, <<SP, "=", SP, NL>>)
        b == Replace(a, <<SP, "=", SP>>, <<QUOTE, ":", QUOTE>>)
        c == Replace(b, <<NL>>, <<QUOTE, ",", NL, QUOTE>>)
        e == Replace(c, <<":", "{", QUOTE, ",">>, <<QUOTE, ":", "{">>)
    IN  Replace(e, <<":", "{", "}", QUOTE>>, <<QUOTE, ":", "{", "}">>)

(* A pass that looks for one brace fewer than its turn of the loop.        *)
DedentFixOneShort(s, i) ==
    Replace(s, <<",", NL, QUOTE>> \o Repeat("}", i - 1), Repeat("}", i - 1) \o <<",", NL, QUOTE>>)

(* One pass of the dedent loop with i braces.                              *)
DedentFix(s, i) ==
    Replace(s, <<",", NL, QUOTE>> \o Repeat("}", i), Repeat("}", i) \o <<",", NL, QUOTE>>)

(* sfs = '{"' + sfs[:-3] + '}'                                             *)
PatchEnds(s) ==
    <<"{", QUOTE>> \o (IF Len(s) > 3 THEN SubSeq(s, 1, Len(s) - 3) ELSE <<>>) \o <<"}">>

-----------------------------------------------------------------------------
(* Node-format documents: what a save file is written from.  A document is *)
(* a sequence of items, a member [t |-> "m", k, v] (the line `k = v`) or a *)
(* node [t |-> "n", k, c] (the lines `k`, `{`, the items c, `}`).          *)

Member(k, v) == [t |-> "m", k |-> k, v |-> v]
Node(k, c) == [t |-> "n", k |-> k, c |-> c]

RECURSIVE Render(_)
Render(items) ==
    IF items = <<>> THEN <<>>
    ELSE LET it == Head(items)
         IN  (IF it.t = "m"
              THEN it.k \o <<SP, "=", SP>> \o it.v \o <<NL>>
              ELSE it.k \o <<NL, "{", NL>> \o Render(it.c) \o <<"}", NL>>)
             \o Render(Tail(items))

(* The tree a document stands for: its keys in source order, every value   *)
(* the verbatim string, every node a nested Mapping under its name.        *)
RECURSIVE TreeOf(_)
TreeOf(items) ==
    Map([j \in 1..Len(items) |->
            [k |-> items[j].k,
             v |-> IF items[j].t = "m" THEN Str(items[j].v) ELSE TreeOf(items[j].c)]])

NodeNames3 == <<"A", "B", "C">>
NodeName(lv) == <<NodeNames3[((lv - 1) % 3) + 1]>>

(* lv nested nodes, the innermost holding the members ms; when tailAt = j  *)
(* >= 2 the node of level j holds one more member after its nested node,   *)
(* which splits the run of closing braces.                                 *)
RECURSIVE Nest(_, _, _)
Nest(lv, ms, tailAt) ==
    IF lv = 1 THEN <<Node(NodeName(1), ms)>>
    ELSE <<Node(NodeName(lv),
                Nest(lv - 1, ms, tailAt)
                \o (IF tailAt = lv THEN <<Member(<<"E">>, <<"w">>)>> ELSE <<>>))>>

Triangle(k) == (k * (k + 1)) \div 2
MaxNest == Triangle(MaxDepthArg) + 1

PlainMemberLists ==
    { <<>>,
      <<Member(<<"K">>, <<"v">>)>>,
      <<Member(<<"K">>, <<>>)>>,
      <<Member(<<"K">>, <<"v", SP, "w">>)>>,
      <<Member(<<"K">>, <<"v">>), Member(<<"J">>, <<"w">>)>> }

MemberLists ==
    PlainMemberLists \cup
    { <<Member(<<"K">>, <<"=">>)>>,
      <<Member(<<"K">>, <<"v", SP, "=">>)>> }

Kinds == {"file", "str", "other"}

NoArgs == [d |-> DefaultDepth, x |-> FALSE, p |-> <<>>, q |-> <<>>, r |-> <<>>]

(* Variables a component does not use.                                     *)
hookVars == <<pairs, level>>
mainVars == <<data, references, log, written>>

-----------------------------------------------------------------------------
(* sfs_parse as a state machine: one step per group of statements.         *)

InitParse ==
    /\ pc = "call"
    /\ \E lv \in 1..MaxNest, ms \in MemberLists, tailAt \in 0..MaxNest :
          /\ tailAt # 1 /\ tailAt <= lv
          /\ doc = Nest(lv, ms, tailAt)
    /\ \E kind \in Kinds : sfs_file = [kind |-> kind, text |-> Render(doc)]
    /\ \E d \in 1..MaxDepthArg : args = [NoArgs EXCEPT !.d = d]
    /\ sfs = Unbound
    /\ n = 0
    /\ jfs = Idle
    /\ pairs = Idle /\ level = 0
    /\ data = Idle /\ references = <<>> /\ log = <<>> /\ written = FALSE

(* Type checking: only an opened file is read into sfs.                    *)
TypeCheck ==
    /\ pc = "call"
    /\ \/ /\ sfs_file.kind = "file"
          /\ sfs' = sfs_file.text
          /\ pc' = "clean"
          /\ jfs' = jfs
       \/ /\ sfs_file.kind = "str"
          /\ sfs' = sfs
          /\ pc' = "clean"
          /\ jfs' = jfs
       \/ /\ sfs_file.kind = "other"
          /\ sfs' = sfs
          /\ pc' = "returned"
          /\ jfs' = PyFalse
    /\ UNCHANGED <<sfs_file, args, n, doc, hookVars, mainVars>>

(* Clean the input string; reading sfs before it was assigned raises.      *)
Clean ==
    /\ pc = "clean"
    /\ IF sfs = Unbound
       THEN /\ jfs' = Raise("UnboundLocalError")
            /\ pc' = "raised"
            /\ sfs' = sfs
       ELSE /\ sfs' = CleanInput(sfs)
            /\ pc' = "names"
            /\ jfs' = jfs
    /\ UNCHANGED <<sfs_file, args, n, doc, hookVars, mainVars>>

Names ==
    /\ pc = "names"
    /\ sfs' = NodeNames(sfs)
    /\ pc' = "assign"
    /\ UNCHANGED <<sfs_file, args, n, jfs, doc, hookVars, mainVars>>

Assign ==
    /\ pc = "assign"
    /\ sfs' = Assignments(sfs)
    /\ pc' = "dedent"
    /\ n' = 0
    /\ UNCHANGED <<sfs_file, args, jfs, doc, hookVars, mainVars>>

(* for n in range(args.d): one pass with i = args.d - n braces.            *)
Dedent ==
    /\ pc = "dedent"
    /\ n < args.d
    /\ sfs' = DedentFix(sfs, args.d - n)
    /\ n' = n + 1
    /\ UNCHANGED <<pc, sfs_file, args, jfs, doc, hookVars, mainVars>>

Patch ==
    /\ pc = "dedent"
    /\ n >= args.d
    /\ sfs' = PatchEnds(sfs)
    /\ pc' = "loads"
    /\ UNCHANGED <<sfs_file, args, n, jfs, doc, hookVars, mainVars>>

(* try: return json.loads(...)  except JSONDecodeError: return False       *)
Loads ==
    /\ pc = "loads"
    /\ LET r == json_loads(sfs)
       IN  jfs' = IF r.t = "raise" THEN PyFalse ELSE r
    /\ pc' = "returned"
    /\ UNCHANGED <<sfs_file, args, sfs, n, doc, hookVars, mainVars>>

NextParse == TypeCheck \/ Clean \/ Names \/ Assign \/ Dedent \/ Patch \/ Loads

SpecParse == InitParse /\ [][NextParse]_vars


-----------------------------------------------------------------------------
(* Properties of sfs_parse.                                                *)

Returned == pc = "returned" /\ sfs_file.kind = "file"

(* Keys and values free of braces, quotes, backslashes, newlines and the   *)
(* text ' = '.                                                             *)
CleanText(s) ==
    /\ \A j \in 1..Len(s) : s[j] \notin {"{", "}", QUOTE, "\\", NL}
    /\ Find(s, <<SP, "=", SP>>, 1) = 0

RECURSIVE WellFormed(_)
WellFormed(items) ==
    /\ \A j \in 1..Len(items) :
          /\ CleanText(items[j].k)
          /\ IF items[j].t = "m" THEN CleanText(items[j].v) ELSE WellFormed(items[j].c)
    /\ \A i, j \in 1..Len(items) : items[i].k = items[j].k => i = j

EndsWith(s, suffix) ==
    Len(s) >= Len(suffix) /\ SubSeq(s, Len(s) - Len(suffix) + 1, Len(s)) = suffix

(* No tab, no space at either end.                                         *)
Trimmed(s) ==
    /\ \A j \in 1..Len(s) : s[j] # TAB
    /\ s # <<>> => s[1] # SP /\ s[Len(s)] # SP

(* The further conditions under which the replace passes translate a       *)
(* well-formed document: names and keys are non-empty, nothing carries a   *)
(* tab or a space at either end, no member key and no value ends in ' =',  *)
(* and no value is '='.                                                    *)
RECURSIVE Translatable(_)
Translatable(items) ==
    \A j \in 1..Len(items) :
       /\ items[j].k # <<>>
       /\ Trimmed(items[j].k)
       /\ IF items[j].t = "m"
          THEN /\ Trimmed(items[j].v)
               /\ ~EndsWith(items[j].k, <<SP, "=">>)
               /\ ~EndsWith(items[j].v, <<SP, "=">>)
               /\ items[j].v # <<"=">>
          ELSE Translatable(items[j].c)

(* The longest run of closing braces that follow one another directly.     *)
MaxBraceRun(text) ==
    LET lines == Split(text, <<NL>>)
        runs == {r \in 0..Len(lines) :
                    \E i \in 1..(Len(lines) + 1) :
                        /\ i + r - 1 <= Len(lines)
                        /\ \A j \in i..(i + r - 1) : lines[j] = <<"}">>}
    IN  CHOOSE r \in runs : \A q \in runs : q <= r

(* The same, not counting the brace that closes an empty node: line 100    *)
(* joins that brace to its opening brace before the dedent loop runs.      *)
MaxDedentRun(text) ==
    LET lines == Split(text, <<NL>>)
        runs == {r \in 0..Len(lines) :
                    \E i \in 1..(Len(lines) + 1) :
                        /\ i + r - 1 <= Len(lines)
                        /\ i = 1 \/ lines[i - 1] # <<"{">>
                        /\ \A j \in i..(i + r - 1) : lines[j] = <<"}">>}
    IN  CHOOSE r \in runs : \A q \in runs : q <= r

(* The number of nodes nested in one another.                              *)
RECURSIVE NestDepth(_)
NestDepth(items) ==
    LET ds == {0} \cup {1 + NestDepth(items[j].c) : j \in {i \in 1..Len(items) : items[i].t = "n"}}
    IN  CHOOSE x \in ds : \A y \in ds : y <= x

(* C1, as claimed: every well-formed document in which no run of closing   *)
(* braces is longer than the depth parameter is returned as the tree with  *)
(* exactly the source's keys, in order, every value verbatim.              *)
C1_WellFormedParsed ==
    (Returned /\ WellFormed(doc) /\ MaxBraceRun(sfs_file.text) <= args.d)
        => jfs = TreeOf(doc)

(* C4, as claimed: with depth N, N+1 nested nodes whose closing braces     *)
(* follow one another directly are not parsed into their tree, and N such  *)
(* nodes are.                                                              *)
C4_DeeperThanDepthFails ==
    (Returned /\ WellFormed(doc) /\ Translatable(doc)
       /\ NestDepth(doc) = MaxBraceRun(sfs_file.text)
       /\ NestDepth(doc) = MaxDedentRun(sfs_file.text))
        => /\ NestDepth(doc) = args.d + 1 => jfs # TreeOf(doc)
           /\ NestDepth(doc) = args.d => jfs = TreeOf(doc)

(* C4, amended: with depth N, a translatable document is parsed into its   *)
(* tree exactly when its longest run of closing braces, the brace of an    *)
(* empty node not counted, is at most N(N+1)/2; a longer run gives a       *)
(* failure or another tree.                                                *)
C4_TriangleBound ==
    (Returned /\ WellFormed(doc) /\ Translatable(doc))
        => ((MaxDedentRun(sfs_file.text) <= Triangle(args.d)) <=> (jfs = TreeOf(doc)))

(* A run one longer than N(N+1)/2 was given to sfs_parse and was not       *)
(* parsed into the document's tree.                                        *)
C4_Witness ==
    /\ Returned /\ WellFormed(doc) /\ Translatable(doc)
    /\ MaxDedentRun(sfs_file.text) = Triangle(args.d) + 1
    /\ jfs # TreeOf(doc)

(* C9, as claimed: called with the file text as a string, sfs_parse ends   *)
(* by returning a tree or by returning the failure result.                 *)
C9_TreeOrFailure ==
    (pc \in {"returned", "raised"} /\ sfs_file.kind = "str")
        => (jfs.t = "map" \/ jfs = PyFalse)


-----------------------------------------------------------------------------
(* sfs_parse on padded lines: one node holding one member line, the line   *)
(* padded on either side by spaces and tabs.                               *)

Pads == UNION {[1..k -> {SP, TAB}] : k \in 0..MaxPad}

PaddedValues == { <<>>, <<"v">>, <<"v", SP, "w">>, <<"v", TAB, "w">> }

PaddedText(lead, v, trail) ==
    <<"A", NL, "{", NL>>
    \o lead \o <<"K", SP, "=">> \o (IF v = <<>> THEN <<>> ELSE <<SP>> \o v) \o trail
    \o <<NL, "}", NL>>

InitStrip ==
    /\ pc = "call"
    /\ \E v \in PaddedValues : doc = <<Node(<<"A">>, <<Member(<<"K">>, v)>>)>>
    /\ \E kind \in Kinds, lead \in Pads, trail \in Pads :
          sfs_file = [kind |-> kind, text |-> PaddedText(lead, doc[1].c[1].v, trail)]
    /\ args = NoArgs
    /\ sfs = Unbound
    /\ n = 0
    /\ jfs = Idle
    /\ pairs = Idle /\ level = 0
    /\ data = Idle /\ references = <<>> /\ log = <<>> /\ written = FALSE

SpecStrip == InitStrip /\ [][NextParse]_vars

(* C10, as claimed: whatever spaces and tabs pad the member line, and      *)
(* nothing else in the line being changed, the tree holds key KEY with the *)
(* value VALUE, the empty string for a blank value.                        *)
C10_PaddingStripped == Returned => jfs = TreeOf(doc)


-----------------------------------------------------------------------------
(* _duplicate_object_hook as the decoder calls it: on the pairs of an      *)
(* object, innermost first; the object it builds is then a value among the *)
(* pairs of the enclosing object.                                          *)

HookKeys == {<<"K">>, <<"J">>}
HookScalars == {Str(<<"1">>), Str(<<"2">>), Str(<<"3">>)}

PairLists(values) ==
    UNION {[1..k -> [k : HookKeys, v : values]] : k \in 0..MaxPairs}

InitHook ==
    /\ pc = "hook"
    /\ level = 1
    /\ pairs \in PairLists(HookScalars)
    /\ jfs = Idle
    /\ sfs_file = Idle /\ args = NoArgs /\ sfs = Unbound /\ n = 0 /\ doc = <<>>
    /\ data = Idle /\ references = <<>> /\ log = <<>> /\ written = FALSE

parseVars == <<sfs_file, args, sfs, n, doc>>

ApplyHook ==
    /\ pc = "hook"
    /\ jfs' = duplicate_object_hook(pairs)
    /\ pc' = "built"
    /\ UNCHANGED <<pairs, level, parseVars, mainVars>>

(* The built object is installed as a value of the enclosing object: alone,*)
(* twice in a row, or twice around a scalar.                               *)
Install ==
    /\ pc = "built"
    /\ level < MaxLevel
    /\ \E k1 \in HookKeys, k2 \in HookKeys :
          \/ pairs' = <<[k |-> k1, v |-> jfs]>>
          \/ pairs' = <<[k |-> k1, v |-> jfs], [k |-> k2, v |-> jfs]>>
          \/ pairs' = <<[k |-> k1, v |-> jfs], [k |-> k2, v |-> Str(<<"1">>)],
                        [k |-> k1, v |-> jfs]>>
    /\ level' = level + 1
    /\ pc' = "hook"
    /\ UNCHANGED <<jfs, parseVars, mainVars>>

NextHook == ApplyHook \/ Install

SpecHook == InitHook /\ [][NextHook]_vars

-----------------------------------------------------------------------------
(* Properties of _duplicate_object_hook.                                   *)

Built == pc = "built"

Occurrences(k) == {i \in 1..Len(pairs) : pairs[i].k = k}
KeysOf(ps) == {ps[i].k : i \in 1..Len(ps)}
First(k) == CHOOSE i \in Occurrences(k) : \A j \in Occurrences(k) : i <= j
Last(k) == CHOOSE i \in Occurrences(k) : \A j \in Occurrences(k) : j <= i

(* The pairs of key k form one contiguous run.                             *)
OneRun(k) == Occurrences(k) = First(k)..Last(k)

(* Where the last contiguous run of key k starts.                          *)
LastRunStart(k) ==
    CHOOSE a \in Occurrences(k) :
        /\ a..Last(k) \subseteq Occurrences(k)
        /\ a = 1 \/ pairs[a - 1].k # k

ValuesOf(a, b) == [j \in 1..(b - a + 1) |-> pairs[a + j - 1].v]

EntriesOf(k) == {i \in 1..Len(jfs.m) : jfs.m[i].k = k}
ValueAt(k) == jfs.m[CHOOSE i \in EntriesOf(k) : TRUE].v

(* C2: a key whose pairs form one contiguous run of n >= 2 maps to the     *)
(* Sequence of those n values in source order, a key that occurs once maps *)
(* to its value itself; at every nesting level.                            *)
C2_RunsBecomeSequences ==
    Built =>
        \A k \in KeysOf(pairs) :
            OneRun(k) =>
                /\ Cardinality(EntriesOf(k)) = 1
                /\ IF First(k) = Last(k)
                   THEN ValueAt(k) = pairs[First(k)].v
                   ELSE ValueAt(k) = List(ValuesOf(First(k), Last(k)))

(* At the second level an object built by the hook occurs twice in a row   *)
(* and became a Sequence of two objects, beside a key that occurs once.    *)
C2_Witness ==
    /\ Built /\ level = 2
    /\ \E k \in KeysOf(pairs) :
          /\ OneRun(k) /\ Last(k) = First(k) + 1
          /\ pairs[First(k)].v.t = "map"
          /\ Len(pairs[First(k)].v.m) = 2
          /\ ValueAt(k) = List(ValuesOf(First(k), Last(k)))

-----------------------------------------------------------------------------
(* int(str) and float(str), for text without underscores: surrounding      *)
(* whitespace is dropped, one sign is allowed; float also takes inf,       *)
(* infinity and nan in any case.  A float is kept exactly, as              *)
(* (-1)^neg * m * 10^e with m not ending in 0, which is what Python's      *)
(* float holds for the short literals of the model.                        *)

DigitChars == <<"0", "1", "2", "3", "4", "5", "6", "7", "8", "9">>
UpperChars == <<"A", "B", "C", "D", "E", "F", "G", "H", "I", "J", "K", "L", "M",
                "N", "O", "P", "Q", "R", "S", "T", "U", "V", "W", "X", "Y", "Z">>
LowerChars == <<"a", "b", "c", "d", "e", "f", "g", "h", "i", "j", "k", "l", "m",
                "n", "o", "p", "q", "r", "s", "t", "u", "v", "w", "x", "y", "z">>

IsDigit(c) == \E j \in 1..Len(DigitChars) : DigitChars[j] = c
DigitValue(c) == (CHOOSE j \in 1..Len(DigitChars) : DigitChars[j] = c) - 1

LowerChar(c) ==
    IF \E j \in 1..Len(UpperChars) : UpperChars[j] = c
    THEN LowerChars[CHOOSE j \in 1..Len(UpperChars) : UpperChars[j] = c]
    ELSE c

LowerText(s) == [j \in 1..Len(s) |-> LowerChar(s[j])]

IsDigits(s) == s # <<>> /\ \A j \in 1..Len(s) : IsDigit(s[j])

RECURSIVE NatOf(_)
NatOf(s) == IF s = <<>> THEN 0 ELSE 10 * NatOf(SubSeq(s, 1, Len(s) - 1)) + DigitValue(s[Len(s)])

StripWs(s) ==
    LET solid == {j \in 1..Len(s) : s[j] \notin JsonWs}
    IN  IF solid = {} THEN <<>>
        ELSE SubSeq(s, CHOOSE a \in solid : \A b \in solid : a <= b,
                       CHOOSE a \in solid : \A b \in solid : b <= a)

Signed(s) == s # <<>> /\ s[1] \in {"+", "-"}
Unsigned(s) == IF Signed(s) THEN Tail(s) ELSE s
Negative(s) == s # <<>> /\ s[1] = "-"

IsIntLiteral(s) == IsDigits(Unsigned(StripWs(s)))

IntOf(s) ==
    LET u == StripWs(s)
    IN  [t |-> "int", i |-> IF Negative(u) THEN 0 - NatOf(Unsigned(u)) ELSE NatOf(Unsigned(u))]

(* mantissa [e exponent] of an unsigned decimal literal.                   *)
ExpAt(u) ==
    LET es == {j \in 1..Len(u) : u[j] \in {"e", "E"}}
    IN  IF es = {} THEN 0 ELSE CHOOSE j \in es : \A k \in es : j <= k
MantissaOf(u) == IF ExpAt(u) = 0 THEN u ELSE SubSeq(u, 1, ExpAt(u) - 1)
ExponentOf(u) == IF ExpAt(u) = 0 THEN <<"0">> ELSE SubSeq(u, ExpAt(u) + 1, Len(u))
WholeOf(m) == Split(m, <<".">>)[1]
FractionOf(m) == IF Len(Split(m, <<".">>)) = 2 THEN Split(m, <<".">>)[2] ELSE <<>>

IsDecimal(u) ==
    LET m == MantissaOf(u)
        parts == Split(m, <<".">>)
    IN  /\ Len(parts) <= 2
        /\ \A j \in 1..Len(parts) : parts[j] = <<>> \/ IsDigits(parts[j])
        /\ \E j \in 1..Len(parts) : parts[j] # <<>>
        /\ IsDigits(Unsigned(ExponentOf(u)))

IsFloatLiteral(s) ==
    LET u == Unsigned(StripWs(s))
    IN  \/ LowerText(u) \in {<<"i", "n", "f">>, <<"n", "a", "n">>,
                             <<"i", "n", "f", "i", "n", "i", "t", "y">>}
        \/ IsDecimal(u)

RECURSIVE Normal(_, _)
Normal(m, e) == IF m = 0 THEN <<0, 0>> ELSE IF m % 10 = 0 THEN Normal(m \div 10, e + 1) ELSE <<m, e>>

FloatOf(s) ==
    LET w == StripWs(s)
        u == Unsigned(w)
        x == ExponentOf(u)
        me == Normal(NatOf(WholeOf(MantissaOf(u)) \o FractionOf(MantissaOf(u))),
                     (IF Negative(x) THEN 0 - NatOf(Unsigned(x)) ELSE NatOf(Unsigned(x)))
                         - Len(FractionOf(MantissaOf(u))))
    IN  IF LowerText(u) = <<"n", "a", "n">> THEN [t |-> "float", v |-> "nan"]
        ELSE IF ~IsDecimal(u) THEN [t |-> "float", v |-> IF Negative(w) THEN "-inf" ELSE "inf"]
             ELSE [t |-> "float", v |-> [neg |-> Negative(w) /\ me[1] # 0, m |-> me[1], e |-> me[2]]]

-----------------------------------------------------------------------------
(* retype_data(data), reverse=False.                                       *)

(* Quaternions and vectors: obj.split(','), every item a float, 3 or 4 of  *)
(* them.                                                                   *)
IsVector(s) ==
    LET items == Split(s, <<",">>)
    IN  /\ \A j \in 1..Len(items) : IsFloatLiteral(items[j])
        /\ Len(items) \in {3, 4}

VectorOf(s) ==
    LET items == Split(s, <<",">>)
    IN  [t |-> "tuple", e |-> [j \in 1..Len(items) |-> FloatOf(items[j])]]

(* A coercion that compares the lower-cased text with true, false, none.   *)
string_to_object_anycase(obj) ==
    IF obj.t = "str" /\ LowerText(obj.s) = <<"t", "r", "u", "e">> THEN PyTrue
    ELSE IF obj.t = "str" /\ LowerText(obj.s) = <<"f", "a", "l", "s", "e">> THEN PyFalse
    ELSE IF obj.t = "str" /\ LowerText(obj.s) = <<"n", "o", "n", "e">> THEN PyNone
    ELSE IF obj = Str(<<"I", "n", "f", "i", "n", "i", "t", "y">>) THEN obj
    ELSE IF obj.t # "str" THEN Raise("AttributeError")
    ELSE IF IsVector(obj.s) THEN VectorOf(obj.s)
    ELSE IF IsIntLiteral(obj.s) THEN IntOf(obj.s)
    ELSE IF IsFloatLiteral(obj.s) THEN FloatOf(obj.s)
    ELSE obj

(* _string_to_object(obj): the comparisons are false of anything that is   *)
(* not a str, and obj.split then raises AttributeError.                    *)
string_to_object(obj) ==
    IF obj \in {Str(<<"T", "r", "u", "e">>), Str(<<"t", "r", "u", "e">>)} THEN PyTrue
    ELSE IF obj \in {Str(<<"F", "a", "l", "s", "e">>), Str(<<"f", "a", "l", "s", "e">>)} THEN PyFalse
    ELSE IF obj \in {Str(<<"N", "o", "n", "e">>), Str(<<"n", "o", "n", "e">>)} THEN PyNone
    ELSE IF obj = Str(<<"I", "n", "f", "i", "n", "i", "t", "y">>) THEN obj
    ELSE IF obj.t # "str" THEN Raise("AttributeError")
    ELSE IF IsVector(obj.s) THEN VectorOf(obj.s)
    ELSE IF IsIntLiteral(obj.s) THEN IntOf(obj.s)
    ELSE IF IsFloatLiteral(obj.s) THEN FloatOf(obj.s)
    ELSE obj

(* The first exception among results, if any.                              *)
Raised(results) == {j \in 1..Len(results) : results[j].t = "raise"}
FirstRaised(results) == results[CHOOSE j \in Raised(results) : \A k \in Raised(results) : j <= k]

(* _recursive_apply(_string_to_object, obj)                                *)
RECURSIVE recursive_apply(_)
recursive_apply(obj) ==
    IF obj.t = "map"
    THEN LET rs == [j \in 1..Len(obj.m) |-> recursive_apply(obj.m[j].v)]
         IN  IF Raised(rs) # {} THEN FirstRaised(rs)
             ELSE Map([j \in 1..Len(obj.m) |-> [k |-> obj.m[j].k, v |-> rs[j]]])
    ELSE IF obj.t = "seq"
         THEN LET rs == [j \in 1..Len(obj.e) |-> recursive_apply(obj.e[j])]
              IN  IF Raised(rs) # {} THEN FirstRaised(rs) ELSE List(rs)
         ELSE string_to_object(obj)

retype_data(d) == recursive_apply(d)


-----------------------------------------------------------------------------
(* retype_data applied to a tree of strings, and then to its own result.   *)

RetypeLeaves ==
    { <<"T", "r", "u", "e">>, <<"t", "r", "u", "e">>, <<"T", "R", "U", "E">>,
      <<"t", "R", "u", "E">>,
      <<"F", "a", "l", "s", "e">>, <<"f", "a", "l", "s", "e">>, <<"F", "A", "L", "S", "E">>,
      <<"N", "o", "n", "e">>, <<"n", "o", "n", "e">>, <<"N", "O", "N", "E">>,
      <<"I", "n", "f", "i", "n", "i", "t", "y">>, <<"N", "a", "N">>,
      <<"4", "2">>, <<"3", ".", "1", "4">>, <<"1", ",", "2">>,
      <<"1", ".", "0", ",", "2", ".", "0", ",", "3", ".", "0">>,
      <<"h", "e", "l", "l", "o">>, <<>> }

RetypeTrees ==
    LET leaf == {Str(x) : x \in RetypeLeaves}
    IN  {Map(<<[k |-> <<"K">>, v |-> a]>>) : a \in leaf}
        \cup {Map(<<[k |-> <<"K">>, v |-> a], [k |-> <<"J">>, v |-> b]>>) : a \in leaf, b \in leaf}
        \cup {Map(<<[k |-> <<"K">>, v |-> List(<<a, b>>)]>>) : a \in leaf, b \in leaf}
        \cup {Map(<<[k |-> <<"K">>, v |-> Map(<<[k |-> <<"J">>, v |-> a]>>)]>>) : a \in leaf}

InitRetype ==
    /\ pc = "retype"
    /\ data \in RetypeTrees
    /\ jfs = Idle
    /\ sfs_file = Idle /\ args = [NoArgs EXCEPT !.x = TRUE] /\ sfs = Unbound /\ n = 0
    /\ doc = <<>>
    /\ pairs = Idle /\ level = 0
    /\ references = <<>> /\ log = <<>> /\ written = FALSE

(* jfs = retype_data(jfs): the first pass over the tree of strings.        *)
RetypeOnce ==
    /\ pc = "retype"
    /\ jfs' = retype_data(data)
    /\ pc' = "once"
    /\ UNCHANGED <<data, parseVars, hookVars, references, log, written>>

(* The pass again, over its own result.                                    *)
RetypeAgain ==
    /\ pc = "once"
    /\ data' = jfs
    /\ jfs' = retype_data(jfs)
    /\ pc' = "twice"
    /\ UNCHANGED <<parseVars, hookVars, references, log, written>>

NextRetype == RetypeOnce \/ RetypeAgain

SpecRetype == InitRetype /\ [][NextRetype]_vars

-----------------------------------------------------------------------------
(* Properties of retype_data.                                              *)

(* The leaves of a tree, left to right.                                    *)
RECURSIVE Leaves(_)
RECURSIVE LeavesOfAll(_)
LeavesOfAll(vs) == IF vs = <<>> THEN <<>> ELSE Leaves(Head(vs)) \o LeavesOfAll(Tail(vs))
Leaves(v) ==
    IF v.t = "map" THEN LeavesOfAll([j \in 1..Len(v.m) |-> v.m[j].v])
    ELSE IF v.t = "seq" THEN LeavesOfAll(v.e)
         ELSE <<v>>

T_true == <<"t", "r", "u", "e">>
T_false == <<"f", "a", "l", "s", "e">>
T_none == <<"n", "o", "n", "e">>
Capital(s) == [j \in 1..Len(s) |-> IF j = 1 THEN UpperChars[CHOOSE i \in 1..26 : LowerChars[i] = s[1]] ELSE s[j]]

(* C5, as claimed: the pass over an already re-typed tree completes and    *)
(* gives that tree again.                                                  *)
C5_RetypeIdempotent == pc = "twice" => jfs = data

(* C6, as claimed: a leaf equal to true or false whatever the case of its  *)
(* letters becomes the boolean, one equal to none becomes null.            *)
C6_AnyCase ==
    pc = "once" =>
        \A j \in 1..Len(Leaves(data)) :
            LET in == Leaves(data)[j]
                out == Leaves(jfs)[j]
            IN  /\ LowerText(in.s) = T_true => out = PyTrue
                /\ LowerText(in.s) = T_false => out = PyFalse
                /\ LowerText(in.s) = T_none => out = PyNone

(* C6, amended: a leaf spelled exactly True or true, False or false, None  *)
(* or none becomes the boolean or null; any other mix of cases of these    *)
(* words stays the string it was.                                          *)
C6_TwoSpellings ==
    pc = "once" =>
        /\ Len(Leaves(jfs)) = Len(Leaves(data))
        /\ \A j \in 1..Len(Leaves(data)) :
              LET in == Leaves(data)[j]
                  out == Leaves(jfs)[j]
              IN  /\ in.s \in {T_true, Capital(T_true)} => out = PyTrue
                  /\ in.s \in {T_false, Capital(T_false)} => out = PyFalse
                  /\ in.s \in {T_none, Capital(T_none)} => out = PyNone
                  /\ (/\ LowerText(in.s) \in {T_true, T_false, T_none}
                      /\ in.s \notin {T_true, T_false, T_none,
                                      Capital(T_true), Capital(T_false), Capital(T_none)})
                        => out = in

(* The pass met true and NONE in one tree: the first became the boolean,   *)
(* the second stayed a string.                                             *)
C6_Witness ==
    /\ pc = "once"
    /\ Leaves(data) = <<Str(T_true), Str(<<"N", "O", "N", "E">>)>>
    /\ Leaves(jfs) = <<PyTrue, Str(<<"N", "O", "N", "E">>)>>


-----------------------------------------------------------------------------
(* Path lookup.  A step of a path is a str or an int.                      *)

GAME == <<"G", "A", "M", "E">>
PARAMETERS == <<"P", "A", "R", "A", "M", "E", "T", "E", "R", "S">>
FLIGHTSTATE == <<"F", "L", "I", "G", "H", "T", "S", "T", "A", "T", "E">>
ALL == <<"A", "L", "L">>
output_name == <<"T", "i", "t", "l", "e">>
output_time == <<"p", "e", "r", "s", "i", "s", "t", "e", "n", "t", "T", "i", "m", "e", "s", "t", "a", "m", "p">>
kspv == <<"v", "e", "r", "s", "i", "o", "n", "F", "u", "l", "l">>

(* str.rstrip('/')                                                         *)
RStripSlash(s) ==
    LET solid == {j \in 1..Len(s) : s[j] # "/"}
    IN  IF solid = {} THEN <<>>
        ELSE SubSeq(s, 1, CHOOSE a \in solid : \A b \in solid : b <= a)

(* _tree_path_split(reference, branch): a Python list of steps.            *)
tree_path_split(reference, branch) ==
    LET path == Split(RStripSlash(reference), <<"/">>)
    IN  IF path[Len(path)] = ALL THEN List(branch)
        ELSE List(branch \o [j \in 1..Len(path) |->
                                IF IsIntLiteral(path[j]) THEN IntOf(path[j]) ELSE Str(path[j])])

(* obj[key] of Python: a dict raises KeyError for a key it does not hold;  *)
(* a list, a tuple and a str take an int, counted from the end when        *)
(* negative, raise IndexError out of range and TypeError for a str key;    *)
(* anything else is not subscriptable.                                     *)
Elements(obj) ==
    IF obj.t = "str" THEN [j \in 1..Len(obj.s) |-> Str(<<obj.s[j]>>)] ELSE obj.e

Subscript(obj, key) ==
    IF obj.t = "raise" THEN obj
    ELSE IF obj.t = "map"
    THEN LET at == {j \in 1..Len(obj.m) : Str(obj.m[j].k) = key}
         IN  IF at = {} THEN Raise("KeyError") ELSE obj.m[CHOOSE j \in at : TRUE].v
    ELSE IF obj.t \in {"seq", "tuple", "str"}
    THEN IF key.t # "int" THEN Raise("TypeError")
         ELSE LET es == Elements(obj)
                  i == IF key.i < 0 THEN key.i + Len(es) ELSE key.i
              IN  IF 0 <= i /\ i < Len(es) THEN es[i + 1] ELSE Raise("IndexError")
    ELSE Raise("TypeError")

(* _dict_reference_from_list(data, keys)                                   *)
RECURSIVE dict_reference_from_list(_, _)
dict_reference_from_list(d, keys) ==
    IF keys # <<>>
    THEN LET next == Subscript(d, keys[1])
         IN  IF next.t = "raise" THEN next
             ELSE dict_reference_from_list(next, Tail(keys))
    ELSE d

(* inspect_data(data, path): a str path is split under GAME first.         *)
inspect_data(d, path) ==
    IF path.t = "str"
    THEN dict_reference_from_list(d, tree_path_split(path.s, <<Str(GAME)>>).e)
    ELSE dict_reference_from_list(d, path.e)

-----------------------------------------------------------------------------
(* The script.                                                             *)

GameDoc ==
    <<Node(GAME,
           <<Member(kspv, <<"1">>),
             Member(output_name, <<"t">>),
             Member(output_time, <<"2", "T", "3">>),
             Member(<<"K">>, <<"1">>),
             Member(<<"K">>, <<"2">>),
             Node(PARAMETERS, <<Member(<<"Y">>, <<"v">>)>>),
             Node(FLIGHTSTATE, <<>>)>>)>>

(* A save whose GAME node lacks the title, and one cut off after the       *)
(* opening brace.                                                          *)
UntitledDoc == <<Node(GAME, <<Member(<<"K">>, <<"1">>)>>)>>
CutOffText == GAME \o <<NL, "{", NL>>

SaveFiles ==
    { [kind |-> "file", text |-> Render(GameDoc)],
      [kind |-> "file", text |-> Render(UntitledDoc)],
      [kind |-> "file", text |-> CutOffText] }

RequestedPaths ==
    { <<"K">>, <<"K", "/", "0">>, <<"K", "/", "-", "1">>, <<"K", "/", "2">>,
      <<"K", "/", "x">>, <<"T", "i", "t", "l", "e", "/", "0">>, <<"Z">>, ALL,
      <<"P", "A", "R", "A", "M", "E", "T", "E", "R", "S", "/", "Y", "/">>, <<"0">> }

InitMain ==
    /\ pc = "args"
    /\ sfs_file \in SaveFiles
    /\ \E x \in BOOLEAN, q \in UNION {[1..k -> RequestedPaths] : k \in 0..MaxRefs} :
          args = [d |-> DefaultDepth, x |-> x, p |-> <<<<"Y">>>>, q |-> q, r |-> <<ALL>>]
    /\ references = <<>>
    /\ log = <<>>
    /\ written = FALSE
    /\ jfs = Idle /\ data = Idle
    /\ sfs = Unbound /\ n = 0 /\ doc = <<>>
    /\ pairs = Idle /\ level = 0

(* Assemble the list of paths to print: -p, then -q, then -r.              *)
AssembleReferences ==
    /\ pc = "args"
    /\ references' =
          [j \in 1..Len(args.p) |-> tree_path_split(args.p[j], <<Str(GAME), Str(PARAMETERS)>>)]
          \o [j \in 1..Len(args.q) |-> tree_path_split(args.q[j], <<Str(GAME)>>)]
          \o [j \in 1..Len(args.r) |-> tree_path_split(args.r[j], <<Str(GAME), Str(FLIGHTSTATE)>>)]
    /\ pc' = "call"
    /\ UNCHANGED <<sfs_file, args, sfs, n, jfs, doc, hookVars, data, log, written>>

(* not jfs: False, and an empty dict as well.                              *)
Falsy(v) == v = PyFalse \/ v = Map(<<>>)

(* jfs = sfs_parse(sfs) has returned; if not jfs: exit()                   *)
CheckParsed ==
    /\ pc = "returned"
    /\ pc' = IF Falsy(jfs) THEN "exited" ELSE IF args.x THEN "retype" ELSE "header"
    /\ UNCHANGED <<sfs_file, args, sfs, n, jfs, doc, hookVars, data, references, log, written>>

(* if args.x: jfs = retype_data(jfs)                                       *)
RetypeTree ==
    /\ pc = "retype"
    /\ jfs' = retype_data(jfs)
    /\ pc' = "header"
    /\ UNCHANGED <<sfs_file, args, sfs, n, doc, hookVars, data, references, log, written>>

(* jfs["GAME"][output_time][0:16].replace("T", " "): only a str can be     *)
(* sliced and then replaced in.                                            *)
SaveTime(v) == IF v.t = "raise" \/ v.t = "str" THEN v
               ELSE IF v.t \in {"seq", "tuple"} THEN Raise("AttributeError")
               ELSE Raise("TypeError")

(* The three printouts of the header; an exception ends the script.        *)
PrintHeader ==
    /\ pc = "header"
    /\ LET game == Subscript(jfs, Str(GAME))
           shown == <<Subscript(game, Str(output_name)),
                      SaveTime(Subscript(game, Str(output_time))),
                      Subscript(game, Str(kspv))>>
       IN  pc' = IF Raised(shown) # {} THEN "crashed" ELSE "printouts"
    /\ UNCHANGED <<sfs_file, args, sfs, n, jfs, doc, hookVars, data, references, log, written>>

(* One turn of the loop over args.references: the value is printed, a      *)
(* KeyError is caught and reported, any other exception ends the script.   *)
Printout ==
    /\ pc = "printouts"
    /\ Len(log) < Len(references)
    /\ LET reference == references[Len(log) + 1]
           result == inspect_data(jfs, reference)
       IN  /\ log' = Append(log, [reference |-> reference, result |-> result])
           /\ pc' = IF result.t = "raise" /\ result.exc # "KeyError"
                    THEN "crashed" ELSE "printouts"
    /\ UNCHANGED <<sfs_file, args, sfs, n, jfs, doc, hookVars, data, references, written>>

(* Output to the JSON file, after the loop.                                *)
WriteJson ==
    /\ pc = "printouts"
    /\ Len(log) = Len(references)
    /\ written' = TRUE
    /\ pc' = "done"
    /\ UNCHANGED <<sfs_file, args, sfs, n, jfs, doc, hookVars, data, references, log>>

NextMain ==
    \/ AssembleReferences
    \/ NextParse
    \/ CheckParsed
    \/ RetypeTree
    \/ PrintHeader
    \/ Printout
    \/ WriteJson

SpecMain == InitMain /\ [][NextMain]_vars

-----------------------------------------------------------------------------
(* Properties of path lookup and of the printouts loop.                    *)

(* Every step of the path exists and matches the shape of the node it is   *)
(* applied to: a key of a Mapping, an index from 0 into a Sequence.        *)
RECURSIVE Resolves(_, _)
Resolves(node, keys) ==
    \/ keys = <<>>
    \/ /\ node.t = "map" /\ keys[1].t = "str"
       /\ \E j \in 1..Len(node.m) :
             node.m[j].k = keys[1].s /\ Resolves(node.m[j].v, Tail(keys))
    \/ /\ node.t = "seq" /\ keys[1].t = "int"
       /\ 0 <= keys[1].i /\ keys[1].i < Len(node.e)
       /\ Resolves(node.e[keys[1].i + 1], Tail(keys))

(* C7, as claimed: a lookup returns a node only if every step resolves,    *)
(* and otherwise fails with the one condition the caller reports, never    *)
(* returning a value.                                                      *)
C7_PathNotFound ==
    \A j \in 1..Len(log) :
        IF Resolves(jfs, log[j].reference.e)
        THEN log[j].result.t # "raise"
        ELSE log[j].result = Raise("KeyError")

(* C8, as claimed: a failed lookup never ends the batch; every requested   *)
(* path is looked up in order and the JSON output is written afterwards.   *)
C8_BatchContinues ==
    /\ \A j \in 1..Len(log) :
          /\ log[j].reference = references[j]
          /\ log[j].result.t = "raise" => log[j].result.exc = "KeyError"
    /\ (log # <<>> /\ pc \in {"done", "crashed", "exited"})
          => (pc = "done" /\ written /\ Len(log) = Len(references))


=============================================================================
